---------------------------- MODULE Spec2Model ----------------------------
(***************************************************************************)
(* A model of levelplot.LevelPlot (src/src/levelplot/levelplot.py).        *)
(*                                                                         *)
(* Numbers.  start, stop, level, level_offset and the axis limits are      *)
(* floats in the source.  Here every number is an integer count of tenths: *)
(* 20 is 2.0, -3 is -0.3, the displacement step 0.3 is 3, the conflict     *)
(* threshold 0.5 is 5.  The arithmetic of the model is therefore exact     *)
(* decimal arithmetic; binary rounding of the float sums is not modelled.  *)
(*                                                                         *)
(* Indices.  Python positions 0..n-1 are the positions 1..n of a sequence. *)
(*                                                                         *)
(* Optional arguments.  None is the empty sequence <<>>; a supplied string *)
(* s is <<s>>; a supplied range (lo, hi) is <<lo, hi>>.                    *)
(***************************************************************************)
EXTENDS Integers, Sequences, FiniteSets

VARIABLES
    df,                  \* the caller's table: [columns, rows]
    figsize,             \* self.figsize
    line_width,          \* self.line_width
    chart_title_prefix,  \* self.chart_title_prefix
    x_axis_title,        \* self.x_axis_title
    y_axis_title,        \* self.y_axis_title
    x_axis_range,        \* self.x_axis_range
    color_map,           \* self.color_map: insertion-ordered <<legend, color>> pairs
    args,                \* the keyword arguments of the last plot() call
    ret,                 \* the outcome of the last plot() / _get_color() call
    seen,                \* history: the distinct legends in first-seen order
    pc,                  \* position inside plot()'s per-panel body
    chart_data,          \* plot()'s local chart_data (rows with level_offset)
    i                    \* plot()'s loop variable i of the offset loop

vars == <<df, figsize, line_width, chart_title_prefix, x_axis_title,
          y_axis_title, x_axis_range, color_map, args, ret, seen,
          pc, chart_data, i>>

-----------------------------------------------------------------------------
(* Program constants, in tenths.                                           *)

OffsetStep == 3
LevelThreshold == 5
XMargin == 10
YMargin == 5

(* Bounds of the model.                                                    *)

MaxRows == 3
MaxTableRows == 2
MaxColorRows == 2
NumLegends == 11

None == <<>>

Abs(x) == IF x < 0 THEN -x ELSE x

Max(S) == CHOOSE x \in S : \A y \in S : y <= x

Min(S) == CHOOSE x \in S : \A y \in S : x <= y

-----------------------------------------------------------------------------
(* LevelPlot._calculate_vertical_offset                                    *)

\* line 85: not (current.stop <= row.start or current.start >= row.stop)
HorizontalOverlap(current_line, row) ==
    ~(current_line.stop <= row.start \/ current_line.start >= row.stop)

\* lines 86-87: abs(current.level - row.level) < 0.5
LevelClose(current_line, row) ==
    Abs(current_line.level - row.level) < LevelThreshold

\* a variant that appends every row with a close level, overlapping or not
calculate_vertical_offset_no_overlap_test(data, current_idx) ==
    LET current_line == data[current_idx]
        overlaps == {data[j].level_offset :
                        j \in {k \in DOMAIN data :
                                  /\ k # current_idx
                                  /\ LevelClose(current_line, data[k])}}
    IN  IF overlaps # {}
        THEN IF current_line.level >= 0
             THEN Max(overlaps) + OffsetStep
             ELSE Max(overlaps) - OffsetStep
        ELSE 0

\* a variant whose level test is <= 0.5 instead of < 0.5
calculate_vertical_offset_le(data, current_idx) ==
    LET current_line == data[current_idx]
        overlaps == {data[j].level_offset :
                        j \in {k \in DOMAIN data :
                                  /\ k # current_idx
                                  /\ HorizontalOverlap(current_line, data[k])
                                  /\ Abs(current_line.level - data[k].level)
                                        <= LevelThreshold}}
    IN  IF overlaps # {}
        THEN IF current_line.level >= 0
             THEN Max(overlaps) + OffsetStep
             ELSE Max(overlaps) - OffsetStep
        ELSE 0

\* a variant that always displaces upward (no sign test on the level)
calculate_vertical_offset_up(data, current_idx) ==
    LET current_line == data[current_idx]
        overlaps == {data[j].level_offset :
                        j \in {k \in DOMAIN data :
                                  /\ k # current_idx
                                  /\ HorizontalOverlap(current_line, data[k])
                                  /\ LevelClose(current_line, data[k])}}
    IN  IF overlaps # {} THEN Max(overlaps) + OffsetStep ELSE 0

\* a variant that steps from the smallest collected offset
calculate_vertical_offset_min(data, current_idx) ==
    LET current_line == data[current_idx]
        overlaps == {data[j].level_offset :
                        j \in {k \in DOMAIN data :
                                  /\ k # current_idx
                                  /\ HorizontalOverlap(current_line, data[k])
                                  /\ LevelClose(current_line, data[k])}}
    IN  IF overlaps # {}
        THEN IF current_line.level >= 0
             THEN Min(overlaps) + OffsetStep
             ELSE Min(overlaps) - OffsetStep
        ELSE 0

\* lines 79-96.  overlaps is a list in the source; only its emptiness and
\* its maximum are used, so it is the set of the collected values here.
calculate_vertical_offset(data, current_idx) ==
    LET current_line == data[current_idx]
        overlaps == {data[j].level_offset :
                        j \in {k \in DOMAIN data :
                                  /\ k # current_idx
                                  /\ HorizontalOverlap(current_line, data[k])
                                  /\ LevelClose(current_line, data[k])}}
    IN  IF overlaps # {}
        THEN IF current_line.level >= 0
             THEN Max(overlaps) + OffsetStep
             ELSE Max(overlaps) - OffsetStep
        ELSE 0

-----------------------------------------------------------------------------
(* plot(): the per-panel preparation, lines 170-174                        *)

\* where r goes in an ascending sequence: after every row whose start is
\* not larger.  Rows of equal start keep the order of the filtered table;
\* pandas leaves their order to the sort kind, and no property below rests
\* on it.
InsertByStart(sorted, r) ==
    LET k == Cardinality({j \in DOMAIN sorted : sorted[j].start <= r.start})
    IN  SubSeq(sorted, 1, k) \o <<r>> \o SubSeq(sorted, k + 1, Len(sorted))

RECURSIVE sort_values(_)
\* line 170: chart_data.sort_values('start').reset_index(drop=True)
sort_values(rows) ==
    IF rows = <<>>
    THEN <<>>
    ELSE InsertByStart(sort_values(SubSeq(rows, 1, Len(rows) - 1)),
                       rows[Len(rows)])

\* line 171: chart_data['level_offset'] = 0.0
WithZeroOffset(rows) ==
    [j \in DOMAIN rows |->
        [chart |-> rows[j].chart, legend |-> rows[j].legend,
         start |-> rows[j].start, stop |-> rows[j].stop,
         level |-> rows[j].level, exclude |-> rows[j].exclude,
         level_offset |-> 0]]

\* line 174: chart_data.at[i, 'level_offset'] = self._calculate_vertical_offset(chart_data, i)
SetOffset(data, idx) ==
    [data EXCEPT ![idx].level_offset = calculate_vertical_offset(data, idx)]

RECURSIVE OffsetLoopFrom(_, _)
\* lines 173-174: for i in range(len(chart_data)), from position idx on
OffsetLoopFrom(data, idx) ==
    IF idx > Len(data)
    THEN data
    ELSE OffsetLoopFrom(SetOffset(data, idx), idx + 1)

\* lines 170-174 for the rows of one chart
PanelData(rows) == OffsetLoopFrom(WithZeroOffset(sort_values(rows)), 1)


-----------------------------------------------------------------------------
(* LevelPlot._get_color, lines 61-63                                       *)

\* line 47: list(mcolors.TABLEAU_COLORS.values())
color_palette ==
    <<"#1f77b4", "#ff7f0e", "#2ca02c", "#d62728", "#9467bd",
      "#8c564b", "#e377c2", "#7f7f7f", "#bcbd22", "#17becf">>

\* line 61: legend in self.color_map
InColorMap(cm, legend) == \E k \in DOMAIN cm : cm[k][1] = legend

\* line 63: self.color_map[legend]
ColorOf(cm, legend) == cm[CHOOSE k \in DOMAIN cm : cm[k][1] = legend][2]

\* a variant that indexes the palette by the size after the insertion
NextColorOffByOne(cm) == color_palette[((Len(cm) + 1) % Len(color_palette)) + 1]

\* line 62: self.color_palette[len(self.color_map) % len(self.color_palette)]
NextColor(cm) == color_palette[(Len(cm) % Len(color_palette)) + 1]

\* lines 61-62: the color map after _get_color(legend)
get_color(cm, legend) ==
    IF InColorMap(cm, legend) THEN cm ELSE Append(cm, <<legend, NextColor(cm)>>)

-----------------------------------------------------------------------------
(* LevelPlot.plot, lines 138-212                                           *)

\* line 145
required_columns == <<"chart", "legend", "start", "stop", "level">>

\* `x or y` on an optional string: None and "" are both falsy
OrStr(x, y) == IF x # None /\ x[1] # "" THEN x[1] ELSE y

\* `x or y` on an optional range: None is falsy, a pair is truthy
OrRange(x, y) == IF x # None THEN x ELSE y

\* a variant that reports only the first missing column
missing_columns_first(table) ==
    LET all == SelectSeq(required_columns, LAMBDA col : col \notin table.columns)
    IN  IF all = <<>> THEN <<>> ELSE <<all[1]>>

\* line 146: [col for col in required_columns if col not in df.columns]
missing_columns(table) ==
    SelectSeq(required_columns, LAMBDA col : col \notin table.columns)

\* a variant that keeps every row
exclude_filter_none(table) == table.rows

\* lines 150-151: df[~df['exclude']] when the column is present
exclude_filter(table) ==
    IF "exclude" \in table.columns
    THEN SelectSeq(table.rows, LAMBDA r : ~r.exclude)
    ELSE table.rows

RECURSIVE unique_charts(_)
\* line 153: df['chart'].unique(), in order of first appearance
unique_charts(rows) ==
    IF rows = <<>>
    THEN <<>>
    ELSE LET before == unique_charts(SubSeq(rows, 1, Len(rows) - 1))
             c == rows[Len(rows)].chart
         IN  IF \E k \in DOMAIN before : before[k] = c
             THEN before
             ELSE Append(before, c)

\* lines 160-164: the explicit range, or one unit around all kept rows
global_x_range(rows, xr) ==
    IF xr # None
    THEN xr
    ELSE <<Min({rows[k].start : k \in DOMAIN rows}) - XMargin,
           Max({rows[k].stop : k \in DOMAIN rows}) + XMargin>>

\* lines 192-200: the panel's vertical range
y_limits(data) ==
    LET all_levels == {data[k].level + data[k].level_offset : k \in DOMAIN data}
        y_min == Min(all_levels) - YMargin
        y_max == Max(all_levels) + YMargin
    IN  IF y_min < 0 /\ y_max > 0
        THEN <<Min({y_min, -YMargin}), Max({y_max, YMargin})>>
        ELSE <<y_min, y_max>>

RECURSIVE DrawRows(_, _, _)
\* lines 176-187: one hlines/text pair per row, the colours resolved in row
\* order; the result is the color map afterwards and the drawn segments
DrawRows(cm, data, idx) ==
    IF idx > Len(data)
    THEN [cm |-> cm, lines |-> <<>>]
    ELSE LET row == data[idx]
             cm1 == get_color(cm, row.legend)
             rest == DrawRows(cm1, data, idx + 1)
         IN  [cm |-> rest.cm,
              lines |-> <<[y |-> row.level + row.level_offset,
                           xmin |-> row.start, xmax |-> row.stop,
                           linewidth |-> line_width,
                           color |-> ColorOf(cm1, row.legend),
                           text |-> row.legend]>> \o rest.lines]

RECURSIVE DrawPanels(_, _, _, _, _, _)
\* lines 166-204: the panels in the order of unique_charts
DrawPanels(cm, rows, charts, chart_idx, prefix, ytitle) ==
    IF chart_idx > Len(charts)
    THEN [cm |-> cm, panels |-> <<>>]
    ELSE LET chart_name == charts[chart_idx]
             data == PanelData(SelectSeq(rows, LAMBDA r : r.chart = chart_name))
             drawn == DrawRows(cm, data, 1)
             rest == DrawPanels(drawn.cm, rows, charts, chart_idx + 1, prefix, ytitle)
         IN  [cm |-> rest.cm,
              panels |-> <<[title |-> <<prefix, chart_name>>,
                            ylabel |-> ytitle,
                            lines |-> drawn.lines,
                            level_offset |-> [k \in DOMAIN data |-> data[k].level_offset],
                            ylim |-> y_limits(data)]>> \o rest.panels]

\* lines 138-212: the outcome of plot(table, **a) on an instance whose color
\* map is cm: the new color map and either the error or the figure.  With no
\* chart left after the filter, plt.subplots(0, 1) of line 156 raises inside
\* the charting library, before anything else is computed.
plot(cm, table, a) ==
    LET prefix == OrStr(a.chart_title_prefix, chart_title_prefix)
        xtitle == OrStr(a.x_axis_title, x_axis_title)
        ytitle == OrStr(a.y_axis_title, y_axis_title)
        xr == OrRange(a.x_axis_range, x_axis_range)
        missing == missing_columns(table)
        rows == exclude_filter(table)
        charts == unique_charts(rows)
    IN  IF missing # <<>>
        THEN [cm |-> cm, ret |-> [kind |-> "ValueError", missing |-> missing]]
        ELSE IF Len(charts) = 0
        THEN [cm |-> cm, ret |-> [kind |-> "SubplotsError"]]
        ELSE LET drawn == DrawPanels(cm, rows, charts, 1, prefix, ytitle)
             IN  [cm |-> drawn.cm,
                  ret |-> [kind |-> "fig",
                           figsize |-> figsize,
                           panels |-> drawn.panels,
                           xlim |-> global_x_range(rows, xr),
                           xlabel |-> xtitle]]


-----------------------------------------------------------------------------
(* The caller's inputs                                                     *)

AllColumns == {"chart", "legend", "start", "stop", "level", "exclude"}

Row(chart, legend, interval, level, exclude) ==
    [chart |-> chart, legend |-> legend, start |-> interval[1],
     stop |-> interval[2], level |-> level, exclude |-> exclude]

\* keyword arguments all left at None
NoArgs ==
    [chart_title_prefix |-> None, x_axis_title |-> None,
     y_axis_title |-> None, x_axis_range |-> None]

\* one chart, no exclude column: the inputs of the offset loop
Intervals == {<<10, 40>>, <<10, 50>>, <<20, 40>>, <<30, 60>>, <<40, 60>>}

\* the levels of one panel: -0.2 and 0.2 are 0.4 apart and of opposite sign,
\* 2.0 and 2.5 are exactly 0.5 apart, every other pair is far apart
LevelFamilies == {{-30, -2, 2}, {-2, 2, 20}, {2, 20, 25}}

PanelRows(levels) ==
    {Row("OverlapTest", 1, iv, lv, FALSE) : iv \in Intervals, lv \in levels}

\* df is one of the tables of 1..MaxRows rows of one level family
IsPanelTable(table) ==
    \E levels \in LevelFamilies : \E n \in 1..MaxRows :
        \E rs \in [1..n -> PanelRows(levels)] :
            table = [columns |-> AllColumns \ {"exclude"}, rows |-> rs]

\* several charts, legends and exclude flags, and tables lacking columns
TableRows ==
    {Row(c, l, iv, lv, e) :
        c \in {"Voltage", "Current"}, l \in {1, 2},
        iv \in {<<10, 40>>, <<30, 60>>}, lv \in {20, -2}, e \in BOOLEAN}

DropSets == {{}, {"exclude"}, {"level"}}

MissingSets ==
    {{"level"}, {"chart", "stop"}, {"legend", "start", "level"},
     {"level", "exclude"}, {"chart", "legend", "start", "stop", "level"}}

\* the table without the columns in cols: an absent column has no values
Drop(rows, cols) ==
    [columns |-> AllColumns \ cols,
     rows |-> [k \in DOMAIN rows |->
                 [chart |-> IF "chart" \in cols THEN "" ELSE rows[k].chart,
                  legend |-> IF "legend" \in cols THEN 0 ELSE rows[k].legend,
                  start |-> IF "start" \in cols THEN 0 ELSE rows[k].start,
                  stop |-> IF "stop" \in cols THEN 0 ELSE rows[k].stop,
                  level |-> IF "level" \in cols THEN 0 ELSE rows[k].level,
                  exclude |-> IF "exclude" \in cols THEN FALSE ELSE rows[k].exclude]]]

IsTable(table) ==
    \E n \in 0..MaxTableRows : \E rs \in [1..n -> TableRows] :
        \E cols \in DropSets : table = Drop(rs, cols)

\* tables whose legends reach past the palette, for the colour assignment
ColorRows ==
    {Row("Voltage", l, <<s, 60>>, 20, FALSE) :
        l \in {1, 2, NumLegends}, s \in {10, 30}}

IsColorTable(table) ==
    \/ \E n \in 1..MaxColorRows : \E rs \in [1..n -> ColorRows] :
          table = Drop(rs, {"exclude"})
    \/ \E r \in ColorRows : \E cols \in MissingSets : table = Drop(<<r>>, cols)

\* per-call keyword arguments and constructor arguments of the configuration
ConfigTable ==
    [columns |-> AllColumns,
     rows |-> <<Row("Voltage", 1, <<10, 40>>, 20, FALSE),
                Row("Current", 2, <<30, 60>>, -2, FALSE)>>]

PlotArgs ==
    [chart_title_prefix : {None, <<"">>, <<"Run 2 - ">>},
     x_axis_title : {None, <<"Time (seconds)">>},
     y_axis_title : {None, <<"Amplitude (V)">>},
     x_axis_range : {None, <<30, 70>>}]

-----------------------------------------------------------------------------
(* The instance and its operations                                         *)

\* lines 24-47 with the default arguments
Constructed ==
    /\ figsize = <<12, 10>>
    /\ line_width = 30
    /\ chart_title_prefix = ""
    /\ x_axis_title = "Frequency"
    /\ y_axis_title = "Level"
    /\ x_axis_range = None
    /\ color_map = <<>>

Idle ==
    /\ args = NoArgs
    /\ ret = [kind |-> "none"]
    /\ seen = <<>>

NoPanel ==
    /\ pc = "idle"
    /\ chart_data = <<>>
    /\ i = 0

self_unchanged ==
    UNCHANGED <<figsize, line_width, chart_title_prefix, x_axis_title,
                y_axis_title, x_axis_range>>

\* the first-seen history after one more _get_color(legend)
SeenAfter(s, legend) ==
    IF \E k \in DOMAIN s : s[k] = legend THEN s ELSE Append(s, legend)

RECURSIVE SeenAfterAll(_, _)
SeenAfterAll(s, calls) ==
    IF calls = <<>> THEN s ELSE SeenAfterAll(SeenAfter(s, Head(calls)), Tail(calls))

RECURSIVE Flatten(_)
Flatten(ss) == IF ss = <<>> THEN <<>> ELSE Head(ss) \o Flatten(Tail(ss))

\* line 177: the legends plot() passed to _get_color, in call order
GetColorCalls(r) ==
    IF r.kind = "fig"
    THEN Flatten([p \in DOMAIN r.panels |->
                    [k \in DOMAIN r.panels[p].lines |-> r.panels[p].lines[k].text]])
    ELSE <<>>

\* a call self._get_color(legend), lines 49-63
GetColor(legend) ==
    /\ pc = "idle"
    /\ color_map' = get_color(color_map, legend)
    /\ ret' = [kind |-> "color", legend |-> legend,
               color |-> ColorOf(color_map', legend)]
    /\ seen' = SeenAfter(seen, legend)
    /\ self_unchanged
    /\ UNCHANGED <<df, args, pc, chart_data, i>>

\* a call self.plot(df, **a), lines 98-212
Plot(a) ==
    /\ pc = "idle"
    /\ LET out == plot(color_map, df, a)
       IN  /\ color_map' = out.cm
           /\ ret' = out.ret
           /\ seen' = SeenAfterAll(seen, GetColorCalls(out.ret))
    /\ args' = a
    /\ self_unchanged
    /\ UNCHANGED <<df, pc, chart_data, i>>

PlotDefault == Plot(NoArgs)

PlotWithArgs == \E a \in PlotArgs : Plot(a)

\* plot()'s per-panel body taken one step at a time: line 168-171
SortPanel ==
    /\ pc = "sort"
    /\ LET rows == exclude_filter(df)
           chart_name == unique_charts(rows)[1]
       IN  chart_data' =
               WithZeroOffset(sort_values(SelectSeq(rows, LAMBDA r : r.chart = chart_name)))
    /\ i' = 1
    /\ pc' = "loop"
    /\ self_unchanged
    /\ UNCHANGED <<df, color_map, args, ret, seen>>

\* one iteration of lines 173-174
OffsetLoopStep ==
    /\ pc = "loop"
    /\ i <= Len(chart_data)
    /\ chart_data' = SetOffset(chart_data, i)
    /\ i' = i + 1
    /\ self_unchanged
    /\ UNCHANGED <<df, color_map, args, ret, seen, pc>>

\* the offset loop has run to its end
LoopDone == pc = "loop" /\ i > Len(chart_data)

-----------------------------------------------------------------------------
(* Specifications                                                          *)

\* plot() on any table, on a freshly constructed instance
Init ==
    /\ IsTable(df)
    /\ Constructed
    /\ Idle
    /\ NoPanel

Next == PlotDefault

Spec == Init /\ [][Next]_vars

\* the offset loop of one panel
InitOffset ==
    /\ IsPanelTable(df)
    /\ Constructed
    /\ Idle
    /\ pc = "sort"
    /\ chart_data = <<>>
    /\ i = 0

NextOffset == SortPanel \/ OffsetLoopStep

SpecOffset == InitOffset /\ [][NextOffset]_vars

\* Legends are opaque to the code (dictionary keys): they are named here in
\* the order in which they are first seen, the k-th new legend being k.
InOrder(s, legend) ==
    (\E k \in DOMAIN s : s[k] = legend) \/ legend = Len(s) + 1

RECURSIVE InOrderAll(_, _)
InOrderAll(s, calls) ==
    IF calls = <<>>
    THEN TRUE
    ELSE /\ InOrder(s, Head(calls))
         /\ InOrderAll(SeenAfter(s, Head(calls)), Tail(calls))

GetColorCall == \E legend \in 1..NumLegends : InOrder(seen, legend) /\ GetColor(legend)

PlotCall ==
    /\ InOrderAll(seen, GetColorCalls(plot(color_map, df, NoArgs).ret))
    /\ Plot(NoArgs)

InitColor ==
    /\ IsColorTable(df)
    /\ Constructed
    /\ Idle
    /\ NoPanel

NextColorStep == GetColorCall \/ PlotCall

SpecColor == InitColor /\ [][NextColorStep]_vars

\* the configuration: constructor arguments and per-call overrides
InitConfig ==
    /\ df = ConfigTable
    /\ figsize \in {<<12, 10>>, <<10, 8>>}
    /\ line_width = 40
    /\ chart_title_prefix \in {"", "My Analysis - "}
    /\ x_axis_title \in {"Frequency", "Time"}
    /\ y_axis_title \in {"Level", "Amplitude"}
    /\ x_axis_range \in {None, <<0, 100>>}
    /\ color_map = <<>>
    /\ Idle
    /\ NoPanel

SpecConfig == InitConfig /\ [][PlotWithArgs]_vars


-----------------------------------------------------------------------------
(* Properties of the offset loop (SpecOffset)                              *)

\* the conflict relation of the documentation: the horizontal extents
\* overlap (touching endpoints do not) and the levels differ by less than 0.5
Conflict(a, b) ==
    /\ ~(a.stop <= b.start \/ a.start >= b.stop)
    /\ (IF a.level >= b.level THEN a.level - b.level ELSE b.level - a.level) < 5

Displaced(k) == chart_data[k].level + chart_data[k].level_offset

Offsets == [k \in DOMAIN chart_data |-> chart_data[k].level_offset]

Extents == [k \in DOMAIN chart_data |-> <<chart_data[k].start, chart_data[k].stop>>]

PanelLevels == {chart_data[k].level : k \in DOMAIN chart_data}

MutuallyConflicting ==
    \A j, k \in DOMAIN chart_data : j # k => Conflict(chart_data[j], chart_data[k])

\* the panel of test_overlapping_signals: A(1,5), B(2,4), C(3,6) at level 2.0
IsOverlapTestPanel ==
    /\ Extents = <<<<10, 50>>, <<20, 40>>, <<30, 60>>>>
    /\ PanelLevels = {20}

\* C1: after the offset loop, no entry lies on the same displaced level
\* (level + level_offset) as a conflicting entry processed before it.
C1_NoSharedDisplacedLevel ==
    LoopDone =>
        \A j, k \in DOMAIN chart_data :
            (j < k /\ Conflict(chart_data[k], chart_data[j]))
                => Displaced(k) # Displaced(j)

\* C2 as stated: A(1,5), B(2,4), C(3,6) at level 2.0 get the offsets
\* 0, 0.3, 0.6, and n mutually conflicting entries of one non-negative level
\* get 0, 0.3, ..., 0.3*(n-1) in processing order.
C2_OffsetsStartAtZero ==
    LoopDone =>
        /\ IsOverlapTestPanel => Offsets = <<0, 3, 6>>
        /\ (MutuallyConflicting /\ Cardinality(PanelLevels) = 1
                /\ \A l \in PanelLevels : l >= 0)
              => \A k \in DOMAIN chart_data : chart_data[k].level_offset = 3 * (k - 1)

\* C2 amended: the first entry reads the stale zero offsets of the entries
\* after it and is displaced too, so the offsets are 0.3, 0.6, 0.9, and in
\* general 0.3, ..., 0.3*n for n mutually conflicting entries of one
\* non-negative level (n at least 2).
C2_OffsetsStartAtOneStep ==
    LoopDone =>
        /\ IsOverlapTestPanel => Offsets = <<3, 6, 9>>
        /\ (MutuallyConflicting /\ Cardinality(PanelLevels) = 1
                /\ Len(chart_data) >= 2 /\ \A l \in PanelLevels : l >= 0)
              => \A k \in DOMAIN chart_data : chart_data[k].level_offset = 3 * k

C2_Witness == LoopDone /\ IsOverlapTestPanel

\* a panel of exactly two overlapping entries, both at level -3.0
IsNegativePair ==
    /\ Len(chart_data) = 2
    /\ PanelLevels = {-30}
    /\ ~(chart_data[2].stop <= chart_data[1].start
            \/ chart_data[2].start >= chart_data[1].stop)

\* C3 as stated: of two overlapping entries at level -3.0 the one processed
\* second ends with level_offset exactly -0.3.
C3_SecondGetsOneStepDown ==
    (LoopDone /\ IsNegativePair) => Offsets[2] = -3

\* C3 amended: the displacement is downward, but the entry processed first
\* already takes -0.3 (it reads the second entry's stale zero), and the entry
\* processed second ends one step below it, at -0.6.
C3_SecondGetsTwoStepsDown ==
    (LoopDone /\ IsNegativePair) => Offsets = <<-3, -6>>

C3_Witness == LoopDone /\ IsNegativePair

\* C4: every entry that conflicts with an entry processed before it ends
\* with a non-zero level_offset, whatever the signs of the levels.
C4_ConflictingEntryDisplaced ==
    LoopDone =>
        \A k \in DOMAIN chart_data :
            (\E j \in 1..(k - 1) : Conflict(chart_data[k], chart_data[j]))
                => chart_data[k].level_offset # 0

\* C6: an entry that no other entry of the panel conflicts with keeps offset
\* 0; (1,4) and (4,6) at one level touch and both keep 0; (1,4) and (3,6) at
\* one level overlap and are displaced; overlapping entries whose levels
\* differ by exactly 0.5 both keep 0.
C6_NoConflictNoOffset ==
    LoopDone =>
        /\ \A k \in DOMAIN chart_data :
              (\A j \in DOMAIN chart_data \ {k} :
                    ~Conflict(chart_data[k], chart_data[j]))
                 => chart_data[k].level_offset = 0
        /\ (Extents = <<<<10, 40>>, <<40, 60>>>> /\ Cardinality(PanelLevels) = 1)
              => Offsets = <<0, 0>>
        /\ (Extents = <<<<10, 40>>, <<30, 60>>>> /\ Cardinality(PanelLevels) = 1)
              => (Offsets[1] # 0 /\ Offsets[2] # 0)
        /\ (Extents = <<<<10, 40>>, <<30, 60>>>> /\ PanelLevels = {20, 25})
              => Offsets = <<0, 0>>

C6_Witness ==
    /\ LoopDone
    /\ Extents = <<<<10, 40>>, <<40, 60>>>>
    /\ PanelLevels = {20}
    /\ Offsets = <<0, 0>>

OffsetOf(k) == chart_data[k].level_offset

\* the offset entry k gets in the panel cut after position k
TruncatedOffset(k) ==
    OffsetLoopFrom(WithZeroOffset(SubSeq(chart_data, 1, k)), 1)[k].level_offset

\* no entry after position k conflicts with an entry at a position up to k
NoLaterConflict(k) ==
    \A j \in 1..k : \A m \in (k + 1)..Len(chart_data) :
        ~Conflict(chart_data[j], chart_data[m])

\* C10 as stated: the offset of entry k in the full panel equals the offset it
\* gets in the panel truncated after k.
C10_OffsetIgnoresLaterEntries ==
    LoopDone =>
        \A k \in DOMAIN chart_data : OffsetOf(k) = TruncatedOffset(k)

\* C10 amended: the offset of entry k equals the one of the truncated panel
\* whenever none of the entries after k conflicts with an entry at a position
\* up to k; a later conflicting entry is read with its stale zero offset and
\* does change the result.
C10_OffsetIgnoresLaterNonConflicting ==
    LoopDone =>
        \A k \in DOMAIN chart_data :
            NoLaterConflict(k) => OffsetOf(k) = TruncatedOffset(k)

C10_Witness ==
    /\ LoopDone
    /\ \E k \in DOMAIN chart_data :
          /\ k < Len(chart_data)
          /\ NoLaterConflict(k)
          /\ OffsetOf(k) # 0
          /\ OffsetOf(k) = TruncatedOffset(k)


-----------------------------------------------------------------------------
(* Properties of the colour assignment (SpecColor)                         *)

\* the palette slot of the k-th distinct legend, k counted from 1 here
SlotColor(k) == color_palette[((k - 1) % Len(color_palette)) + 1]

\* the colour the first-seen order gives a legend
ExpectedColor(legend) ==
    SlotColor(CHOOSE k \in DOMAIN seen : seen[k] = legend)

\* C5: the k-th distinct legend seen holds palette[k mod palette length] in
\* color_map, color_map holds the seen legends and nothing else, and every
\* call, direct or made by plot() for a row, returns that colour.
C5_FirstSeenOrderDecidesColor ==
    /\ Len(color_map) = Len(seen)
    /\ \A k \in DOMAIN seen : color_map[k] = <<seen[k], SlotColor(k)>>
    /\ ret.kind = "color" => ret.color = ExpectedColor(ret.legend)
    /\ ret.kind = "fig" =>
          \A p \in DOMAIN ret.panels : \A k \in DOMAIN ret.panels[p].lines :
              ret.panels[p].lines[k].color
                  = ExpectedColor(ret.panels[p].lines[k].text)

\* a plot() whose row carries the legend after the palette is used up
C5_Witness ==
    /\ Len(seen) = Len(color_palette) + 1
    /\ ret.kind = "fig"
    /\ \E p \in DOMAIN ret.panels : \E k \in DOMAIN ret.panels[p].lines :
          /\ ret.panels[p].lines[k].text = seen[Len(seen)]
          /\ ret.panels[p].lines[k].color = color_palette[1]

\* the required columns the table lacks
MissingRequired(table) ==
    {"chart", "legend", "start", "stop", "level"} \ table.columns

\* C7: plot() on a table lacking required columns raises ValueError naming
\* exactly the missing required columns, and leaves color_map as it was.
C7_MissingColumnsRaise ==
    [][(ret'.kind # "color" /\ MissingRequired(df) # {})
          => /\ ret'.kind = "ValueError"
             /\ {ret'.missing[k] : k \in DOMAIN ret'.missing} = MissingRequired(df)
             /\ Len(ret'.missing) = Cardinality(MissingRequired(df))
             /\ color_map' = color_map]_vars

C7_Witness ==
    /\ ret.kind = "ValueError"
    /\ ret.missing = <<"level">>
    /\ "level" \notin df.columns
    /\ color_map # <<>>

-----------------------------------------------------------------------------
(* Properties of plot() as a whole (Spec, SpecConfig)                      *)

Excluded(table) ==
    {k \in DOMAIN table.rows : "exclude" \in table.columns /\ table.rows[k].exclude}

Kept(table) == DOMAIN table.rows \ Excluded(table)

\* the same table with the excluded rows deleted
WithoutExcluded(table) ==
    [columns |-> table.columns,
     rows |-> SelectSeq(table.rows, LAMBDA r : ~r.exclude)]

RECURSIVE CountLines(_)
CountLines(panels) ==
    IF panels = <<>> THEN 0 ELSE Len(Head(panels).lines) + CountLines(Tail(panels))

\* C8: the outcome of plot() (panels and their order, offsets, colours,
\* horizontal and vertical ranges) and the color map are those of the table
\* with the excluded rows deleted; only kept rows are drawn, take a palette
\* slot or enter the automatic horizontal range.
C8_ExcludedRowsHaveNoInfluence ==
    (ret.kind # "none" /\ MissingRequired(df) = {}) =>
        LET out == plot(<<>>, WithoutExcluded(df), NoArgs)
        IN  /\ ret = out.ret
            /\ color_map = out.cm
            /\ ret.kind = "fig" =>
                  /\ ret.xlim =
                        <<Min({df.rows[k].start : k \in Kept(df)}) - 10,
                          Max({df.rows[k].stop : k \in Kept(df)}) + 10>>
                  /\ CountLines(ret.panels) = Cardinality(Kept(df))
                  /\ {color_map[k][1] : k \in DOMAIN color_map}
                        = {df.rows[k].legend : k \in Kept(df)}

\* an excluded row that would have widened the range and taken a colour
C8_Witness ==
    /\ ret.kind = "fig"
    /\ \E e \in Excluded(df) :
          /\ \A k \in Kept(df) : df.rows[e].start < df.rows[k].start
          /\ \A k \in Kept(df) : df.rows[e].legend # df.rows[k].legend

\* C9: a value supplied to plot() for chart_title_prefix, x_axis_title,
\* y_axis_title or x_axis_range is the one the call uses, whatever it is (an
\* empty string included); the instance default is used only when none is
\* supplied.
C9_SuppliedValueIsUsed ==
    ret.kind = "fig" =>
        /\ \A p \in DOMAIN ret.panels :
              /\ ret.panels[p].title[1] =
                    (IF args.chart_title_prefix # None
                     THEN args.chart_title_prefix[1] ELSE chart_title_prefix)
              /\ ret.panels[p].ylabel =
                    (IF args.y_axis_title # None
                     THEN args.y_axis_title[1] ELSE y_axis_title)
        /\ ret.xlabel =
              (IF args.x_axis_title # None THEN args.x_axis_title[1] ELSE x_axis_title)
        /\ args.x_axis_range # None => ret.xlim = args.x_axis_range
        /\ (args.x_axis_range = None /\ x_axis_range # None) => ret.xlim = x_axis_range

=============================================================================
